---- MODULE Spec2Model ----
(***************************************************************************)
(* The interactive session and replay state machine of the chess GUI       *)
(* (windows-chess-gui/src/main.rs): AppState, its ggez event handlers      *)
(* (mouse_button_down_event, mouse_button_up_event, key_down_event, draw)  *)
(* and the calls they make into the chess crate (Board, Game).             *)
(***************************************************************************)
EXTENDS Integers, Sequences, FiniteSets, TLC

(***************************************************************************)
(* Bounds of the model.                                                    *)
(***************************************************************************)
\* Pointer-downs on the board stop once the catalog holds MaxGames records.
MaxGames == 2
\* Key D is pressed while replay_turn is below NoReplayTurn + MaxFwd.
MaxFwd == 1
\* Key A is pressed while replay_turn is above NoReplayTurn - MaxBack (or 0).
MaxBack == 1

(***************************************************************************)
(* Program constants.                                                      *)
(***************************************************************************)
GRID_SIZE == 8
GRID_CELL_SIZE == 110
\* The board is drawn with a margin of 20 pixels on the left and on top.
BoardOrigin == 20
\* replay_turn of a session that views no replay (AppState::new, start button).
NoReplayTurn == 999
\* draw shows a replay snapshot while replay_turn is below this value.
ReplayLimit == 777
\* The menu column: x in [MenuLeft, MenuLeft + MenuWidth].
MenuOffset == 40
MenuWidth == 340
\* Start button: y in [StartTop, StartBottom]; replay button: y in
\* [StartBottom, ReplayBottom].
StartTop == 100
StartBottom == 160
ReplayBottom == 220
\* pos_x and pos_y before the first pointer-down on the board.
InitPos == 355

(***************************************************************************)
(* The chess crate: colours, pieces, squares, boards.                      *)
(***************************************************************************)
Colors == {"White", "Black"}
Kinds == {"Pawn", "Knight", "Bishop", "Rook", "Queen", "King"}
\* (Option<Color>, Option<Piece>) with both components None.
NoPiece == <<"None", "None">>
Squares == 0 .. 63
NoSq == 64

Other(c) == IF c = "White" THEN "Black" ELSE "White"

\* chess::Square::make_square(rank, file): index = rank * 8 + file.
make_square(rank, file) == rank * 8 + file
get_rank(sq) == sq \div 8
get_file(sq) == sq % 8

\* chess::Rank::from_index / chess::File::from_index: the index modulo 8.
from_index(i) == i % 8

Abs(n) == IF n < 0 THEN -n ELSE n
Sign(n) == IF n < 0 THEN -1 ELSE IF n > 0 THEN 1 ELSE 0

\* A BitBoard is modelled as the set of the squares whose bit is set:
\* & is \cap, | is \cup, ! is the complement in Squares.
EMPTY == {}

RankSquares(r) == { make_square(r, f) : f \in 0 .. 7 }

\* Board::default(): the standard starting position, White to move.  A Board
\* holds one bitboard per piece kind and per colour, the side to move, the
\* castle rights of each side and the en-passant square.
DefaultBoard ==
    [ pieces |-> [ Pawn   |-> RankSquares(1) \cup RankSquares(6),
                   Knight |-> {1, 6, 57, 62},
                   Bishop |-> {2, 5, 58, 61},
                   Rook   |-> {0, 7, 56, 63},
                   Queen  |-> {3, 59},
                   King   |-> {4, 60} ],
      color_combined |-> [ White |-> RankSquares(0) \cup RankSquares(1),
                           Black |-> RankSquares(6) \cup RankSquares(7) ],
      side_to_move |-> "White",
      castle_rights |-> [ White |-> "Both", Black |-> "Both" ],
      en_passant |-> NoSq ]

\* Board::combined(): every occupied square.
combined(b) == b.color_combined["White"] \cup b.color_combined["Black"]

\* Board::color_on(sq), "None" for an empty square.
color_on(b, s) ==
    IF s \in b.color_combined["White"] THEN "White"
    ELSE IF s \in b.color_combined["Black"] THEN "Black"
    ELSE "None"

\* Board::piece_on(sq), "None" for an empty square.
piece_on(b, s) ==
    IF \E k \in Kinds : s \in b.pieces[k]
    THEN CHOOSE k \in Kinds : s \in b.pieces[k]
    ELSE "None"

\* (self.board.color_on(sq), self.board.piece_on(sq))
piece_at(b, s) == <<color_on(b, s), piece_on(b, s)>>

IsEmpty(b, s) == s \notin combined(b)

PawnDir(c) == IF c = "White" THEN 1 ELSE -1
PawnStartRank(c) == IF c = "White" THEN 1 ELSE 6
LastRank(c) == IF c = "White" THEN 7 ELSE 0

\* Every square strictly between from and to (on one line) is empty.
PathClear(b, from, to) ==
    LET df == Sign(get_file(to) - get_file(from))
        dr == Sign(get_rank(to) - get_rank(from))
        n  == IF Abs(get_file(to) - get_file(from)) > Abs(get_rank(to) - get_rank(from))
              THEN Abs(get_file(to) - get_file(from))
              ELSE Abs(get_rank(to) - get_rank(from))
    IN \A k \in 1 .. (n - 1) :
          IsEmpty(b, make_square(get_rank(from) + k * dr, get_file(from) + k * df))

\* The piece on from attacks the square to.
Attacks(b, from, to) ==
    LET df == get_file(to) - get_file(from)
        dr == get_rank(to) - get_rank(from)
        k  == piece_on(b, from)
    IN /\ from # to
       /\ CASE k = "Knight" -> {Abs(df), Abs(dr)} = {1, 2}
            [] k = "King"   -> Abs(df) <= 1 /\ Abs(dr) <= 1
            [] k = "Rook"   -> (df = 0 \/ dr = 0) /\ PathClear(b, from, to)
            [] k = "Bishop" -> Abs(df) = Abs(dr) /\ PathClear(b, from, to)
            [] k = "Queen"  -> (df = 0 \/ dr = 0 \/ Abs(df) = Abs(dr)) /\ PathClear(b, from, to)
            [] k = "Pawn"   -> Abs(df) = 1 /\ dr = PawnDir(color_on(b, from))
            [] OTHER -> FALSE

\* Some piece of colour by attacks the square s.
Attacked(b, s, by) ==
    \E f \in b.color_combined[by] : Attacks(b, f, s)

KingSq(b, c) == CHOOSE s \in b.pieces["King"] : s \in b.color_combined[c]

InCheck(b, c) == Attacked(b, KingSq(b, c), Other(c))

\* Square::left(), Square::right(): None (NoSq) at the edge of the board.
left(sq) == IF get_file(sq) = 0 THEN NoSq ELSE sq - 1
right(sq) == IF get_file(sq) = 7 THEN NoSq ELSE sq + 1

\* Square::uup(): one rank up, whatever the colour; the rank wraps.
uup(sq) == make_square(from_index(get_rank(sq) + 1), get_file(sq))

\* The squares strictly between two squares of one rank, file or diagonal.
Between(from, to) ==
    LET df == Sign(get_file(to) - get_file(from))
        dr == Sign(get_rank(to) - get_rank(from))
        n  == IF Abs(get_file(to) - get_file(from)) > Abs(get_rank(to) - get_rank(from))
              THEN Abs(get_file(to) - get_file(from))
              ELSE Abs(get_rank(to) - get_rank(from))
    IN { make_square(get_rank(from) + k * dr, get_file(from) + k * df) : k \in 1 .. (n - 1) }

\* chess::get_king_moves, get_knight_moves: the raw destination bitboards.
get_king_moves(sq) ==
    { t \in Squares \ {sq} : /\ Abs(get_file(t) - get_file(sq)) <= 1
                             /\ Abs(get_rank(t) - get_rank(sq)) <= 1 }

get_knight_moves(sq) ==
    { t \in Squares : {Abs(get_file(t) - get_file(sq)), Abs(get_rank(t) - get_rank(sq))} = {1, 2} }

\* chess::get_rook_moves, get_bishop_moves: along each ray up to and
\* including the first blocker.
get_rook_moves(sq, blockers) ==
    { t \in Squares \ {sq} : /\ get_file(t) = get_file(sq) \/ get_rank(t) = get_rank(sq)
                             /\ Between(sq, t) \cap blockers = {} }

get_bishop_moves(sq, blockers) ==
    { t \in Squares \ {sq} : /\ Abs(get_file(t) - get_file(sq)) = Abs(get_rank(t) - get_rank(sq))
                             /\ Between(sq, t) \cap blockers = {} }

\* chess::get_pawn_attacks: the two capture squares that hold a blocker.
get_pawn_attacks(sq, color, blockers) ==
    { t \in blockers : /\ Abs(get_file(t) - get_file(sq)) = 1
                       /\ get_rank(t) - get_rank(sq) = PawnDir(color) }

\* chess::get_pawn_quiets: nothing when the square ahead is blocked, else the
\* push squares (two from the start rank) that are not blocked.
get_pawn_quiets(sq, color, blockers) ==
    LET ahead == make_square(from_index(get_rank(sq) + PawnDir(color)), get_file(sq))
        pushes == {ahead} \cup (IF get_rank(sq) = PawnStartRank(color)
                                THEN {sq + 16 * PawnDir(color)} ELSE {})
    IN IF ahead \in blockers THEN EMPTY ELSE pushes \ blockers

\* chess::get_pawn_moves: attacks ^ quiets.
get_pawn_moves(sq, color, blockers) ==
    LET a == get_pawn_attacks(sq, color, blockers)
        q == get_pawn_quiets(sq, color, blockers)
    IN (a \cup q) \ (a \cap q)

\* CastleRights::kingside_squares, queenside_squares: the squares that must
\* be empty to castle (f and g files; b, c and d files) on the colour's
\* home rank.  The result does not depend on the rights it is called on.
kingside_squares(rights, color) ==
    LET home == IF color = "White" THEN 0 ELSE 7
    IN { make_square(home, f) : f \in {5, 6} }

queenside_squares(rights, color) ==
    LET home == IF color = "White" THEN 0 ELSE 7
    IN { make_square(home, f) : f \in {1, 2, 3} }

\* A ChessMove: source, destination and optional promotion piece.
ChessMove(from, to, promotion) == [from |-> from, to |-> to, promotion |-> promotion]

\* The move obeys the movement rule of the piece of the side to move on its
\* source square (castling is not generated).
PseudoLegal(b, mv) ==
    LET from == mv.from
        to   == mv.to
        c    == b.side_to_move
        k    == piece_on(b, from)
        df   == get_file(to) - get_file(from)
        dr   == get_rank(to) - get_rank(from)
    IN /\ from \in b.color_combined[c]
       /\ to \notin b.color_combined[c]
       /\ IF k = "Pawn"
          THEN /\ \/ df = 0 /\ dr = PawnDir(c) /\ IsEmpty(b, to)
                  \/ /\ df = 0 /\ dr = 2 * PawnDir(c)
                     /\ get_rank(from) = PawnStartRank(c)
                     /\ IsEmpty(b, to)
                     /\ PathClear(b, from, to)
                  \/ Abs(df) = 1 /\ dr = PawnDir(c) /\ to \in b.color_combined[Other(c)]
                  \/ /\ Abs(df) = 1 /\ dr = PawnDir(c) /\ IsEmpty(b, to)
                     /\ b.en_passant # NoSq
                     /\ b.en_passant = make_square(get_rank(from), get_file(to))
               /\ IF get_rank(to) = LastRank(c)
                  THEN mv.promotion \in {"Queen", "Rook", "Bishop", "Knight"}
                  ELSE mv.promotion = "None"
          ELSE mv.promotion = "None" /\ Attacks(b, from, to)

\* Castle rights left to a side that held rights r after losing side lost.
RemoveRights(r, lost) ==
    CASE lost = "Both" -> "NoRights"
      [] r = "Both" -> IF lost = "KingSide" THEN "QueenSide" ELSE "KingSide"
      [] r = lost -> "NoRights"
      [] OTHER -> r

\* Rights a side loses when a piece leaves or is captured on square s.
RightsLostAt(c, s) ==
    LET home == IF c = "White" THEN 0 ELSE 7
    IN CASE s = make_square(home, 4) -> "Both"
         [] s = make_square(home, 7) -> "KingSide"
         [] s = make_square(home, 0) -> "QueenSide"
         [] OTHER -> "None"

\* Board::make_move_new: the position after the move.
ApplyMove(b, mv) ==
    LET from == mv.from
        to   == mv.to
        c    == b.side_to_move
        k    == piece_on(b, from)
        isEp == k = "Pawn" /\ get_file(to) # get_file(from) /\ IsEmpty(b, to)
        capSq == IF isEp THEN make_square(get_rank(from), get_file(to)) ELSE to
        placed == IF mv.promotion # "None" THEN mv.promotion ELSE k
        npieces == [x \in Kinds |->
                      (b.pieces[x] \ {from, to, capSq})
                          \cup (IF x = placed THEN {to} ELSE {})]
        dbl  == k = "Pawn" /\ Abs(get_rank(to) - get_rank(from)) = 2
        \* set_ep: only when an enemy pawn stands beside the pushed pawn.
        canTake == \E s \in b.pieces["Pawn"] \cap b.color_combined[Other(c)] :
                      /\ get_rank(s) = get_rank(to)
                      /\ Abs(get_file(s) - get_file(to)) = 1
        own  == IF RightsLostAt(c, from) = "None" THEN b.castle_rights[c]
                ELSE RemoveRights(b.castle_rights[c], RightsLostAt(c, from))
        opp  == IF RightsLostAt(Other(c), to) = "None" THEN b.castle_rights[Other(c)]
                ELSE RemoveRights(b.castle_rights[Other(c)], RightsLostAt(Other(c), to))
    IN [ pieces |-> npieces,
         color_combined |-> [x \in Colors |->
                               IF x = c THEN (b.color_combined[x] \ {from}) \cup {to}
                               ELSE b.color_combined[x] \ {to, capSq}],
         side_to_move |-> Other(c),
         castle_rights |-> [x \in Colors |-> IF x = c THEN own ELSE opp],
         en_passant |-> IF dbl /\ canTake THEN to ELSE NoSq ]

\* Board::legal(mv): the move is generated for the side to move and does not
\* leave its own king attacked.
Legal(b, mv) ==
    /\ PseudoLegal(b, mv)
    /\ ~InCheck(ApplyMove(b, mv), b.side_to_move)

HasLegalMove(b) ==
    \E from \in b.color_combined[b.side_to_move] :
       \E to \in Squares :
          Legal(b, ChessMove(from, to,
                   IF from \in b.pieces["Pawn"] /\ get_rank(to) = LastRank(b.side_to_move)
                   THEN "Queen" ELSE "None"))

\* Board::status().
BoardStatus(b) ==
    IF HasLegalMove(b) THEN "Ongoing"
    ELSE IF InCheck(b, b.side_to_move) THEN "Checkmate"
    ELSE "Stalemate"

\* A Game is the list of the moves made from the starting position; the
\* model keeps with it the board they lead to (Game::current_position()).
\* Game::from_str of the standard starting position:
NewGame == [moves |-> <<>>, position |-> DefaultBoard]

current_position(g) == g.position

\* Game::make_move(mv), its result: refused once the game has a result, else
\* accepted exactly when the move is legal in the current position.
make_move(g, mv) ==
    /\ BoardStatus(g.position) = "Ongoing"
    /\ Legal(g.position, mv)

\* Game::make_move(mv), the game it leaves when it returns true.
MoveMade(g, mv) ==
    [moves |-> Append(g.moves, mv), position |-> ApplyMove(g.position, mv)]

(***************************************************************************)
(* AppState and the ggez context.                                          *)
(***************************************************************************)
VARIABLES
    board,           \* AppState.board: the board that is drawn
    status,          \* AppState.status
    game,            \* AppState.game (its current position)
    side_to_move,    \* AppState.side_to_move
    pos_x, pos_y,    \* AppState.pos_x, pos_y: cell of the last pointer-down
    piece,           \* AppState.piece: (colour, kind) recorded by draw
    saved_replay,    \* AppState.saved_replay: the catalog of archived games
    replay_boards,   \* AppState.replay_boards: snapshots of the game in progress
    replay_turn,     \* AppState.replay_turn: the replay cursor
    cursor_grabbed,  \* ggez mouse context: input::mouse::cursor_grabbed(ctx)
    highlighted,     \* the squares whose tile the last frame drew as destinations
    shown,           \* the board and the side to move the last frame rendered
    wait_loop,       \* where the last frame stands with the loop of the menu branch
    crashed,         \* the process has panicked
    last             \* what the last handler did

vars == <<board, status, game, side_to_move, pos_x, pos_y, piece, saved_replay,
          replay_boards, replay_turn, cursor_grabbed, highlighted, shown,
          wait_loop, crashed, last>>

\* The window before the first frame: no board has been rendered.
NoFrame ==
    [ board |-> [ pieces |-> [ Pawn |-> {}, Knight |-> {}, Bishop |-> {},
                               Rook |-> {}, Queen |-> {}, King |-> {} ],
                  color_combined |-> [ White |-> {}, Black |-> {} ],
                  side_to_move |-> "White",
                  castle_rights |-> [ White |-> "NoRights", Black |-> "NoRights" ],
                  en_passant |-> NoSq ],
      side_to_move |-> "None" ]

\* AppState::new.
Init ==
    /\ board = DefaultBoard
    /\ status = "Checkmate"
    /\ game = NewGame
    /\ side_to_move = "White"
    /\ pos_x = InitPos
    /\ pos_y = InitPos
    /\ piece = NoPiece
    /\ saved_replay = <<>>
    /\ replay_boards = <<DefaultBoard>>
    /\ replay_turn = NoReplayTurn
    /\ cursor_grabbed = FALSE
    /\ highlighted = {}
    /\ shown = NoFrame
    /\ wait_loop = "skipped"
    /\ crashed = FALSE
    /\ last = "new"

(***************************************************************************)
(* Pixel geometry.                                                         *)
(***************************************************************************)
BoardEdge == GRID_CELL_SIZE * GRID_SIZE + BoardOrigin
MenuLeft == MenuOffset + GRID_SIZE * GRID_CELL_SIZE

\* ((x - 20.0) / GRID_CELL_SIZE.0 as f32).floor()
CellOf(p) == (p - BoardOrigin) \div GRID_CELL_SIZE

\* f32 as usize: negative values saturate to 0.
AsUsize(v) == IF v < 0 THEN 0 ELSE v

\* 20.0 < x && x < 900.0 && 20.0 < y && y < 900.0
InBoard(x, y) ==
    /\ BoardOrigin < x /\ x < BoardEdge
    /\ BoardOrigin < y /\ y < BoardEdge

InStartButton(x, y) ==
    /\ x >= MenuLeft /\ x <= MenuLeft + MenuWidth
    /\ y >= StartTop /\ y <= StartBottom

InReplayButton(x, y) ==
    /\ x >= MenuLeft /\ x <= MenuLeft + MenuWidth
    /\ y >= StartBottom /\ y <= ReplayBottom

\* 7 - row, computed in usize: row > 7 overflows.
RowOverflows(row) == row > 7

\* chess::Square::make_square(Rank::from_index(7 - row), File::from_index(col))
\* where the subtraction did not panic (it wraps when row > 7).
SquareOfCell(row, col) == make_square(from_index(7 - row), from_index(col))

(***************************************************************************)
(* Inputs: the pixels the pointer is pressed, released and seen at.        *)
(***************************************************************************)
\* Centre of the cell that shows the square (file, rank).
SqPixel(file, rank) ==
    << BoardOrigin + GRID_CELL_SIZE * file + GRID_CELL_SIZE \div 2,
       BoardOrigin + GRID_CELL_SIZE * (7 - rank) + GRID_CELL_SIZE \div 2 >>

\* f2, f3, g2, g4, e7, e5, d8, h4 as (file, rank).
PlaySquares == { <<5, 1>>, <<5, 2>>, <<6, 1>>, <<6, 3>>,
                 <<4, 6>>, <<4, 4>>, <<3, 7>>, <<7, 3>> }

StartPoint == << MenuLeft + MenuWidth \div 2, (StartTop + StartBottom) \div 2 >>
ReplayPoint == << MenuLeft + MenuWidth \div 2, (StartBottom + ReplayBottom) \div 2 >>
\* Below the board, inside the window.
BelowBoardPoint == << BoardOrigin + GRID_CELL_SIZE \div 2, BoardEdge + 10 >>

MousePoints ==
    { SqPixel(s[1], s[2]) : s \in PlaySquares }
        \cup {StartPoint, ReplayPoint, BelowBoardPoint}


(***************************************************************************)
(* draw: the three blocks of AppState::draw that change the state, each    *)
(* as a function of the fields it reads and writes.  st is a record        *)
(* [board, status, game, side_to_move, piece, saved_replay, replay_boards, *)
(* highlighted, crashed, last].                                            *)
(***************************************************************************)
Fields ==
    [ board |-> board, status |-> status, game |-> game,
      side_to_move |-> side_to_move, piece |-> piece,
      saved_replay |-> saved_replay, replay_boards |-> replay_boards,
      highlighted |-> {}, crashed |-> FALSE, last |-> "frame" ]

Panic(st) == [st EXCEPT !.crashed = TRUE, !.last = "panic"]

\* let mut kingside = kingside_squares(..) & !combined, narrowed to the f
\* file when that square holds a piece.
kingside(b, side) ==
    LET home == IF side = "White" THEN 0 ELSE 7
        open == kingside_squares(b.castle_rights[side], side) \ combined(b)
    IN IF piece_on(b, make_square(home, 5)) # "None"
       THEN open \cap {make_square(home, 5)}
       ELSE open

\* let mut queenside = queenside_squares(..) & !combined, then & the b file
\* square of the home rank.
queenside(b, side) ==
    LET home == IF side = "White" THEN 0 ELSE 7
        open == queenside_squares(b.castle_rights[side], side) \ combined(b)
    IN open \cap {make_square(home, 1)}

\* bb with a slip: a knight's destinations keep the squares of its own side.
bbKnightKeepsOwn(b, side, sq, recorded) ==
    LET own == b.color_combined[side]
        all == combined(b)
    IN CASE recorded[2] = "Pawn"   -> get_pawn_moves(sq, recorded[1], all) \ own
         [] recorded[2] = "Rook"   -> get_rook_moves(sq, all) \ own
         [] recorded[2] = "Knight" -> get_knight_moves(sq)
         [] recorded[2] = "Bishop" -> get_bishop_moves(sq, all) \ own
         [] recorded[2] = "Queen"  ->
                (get_rook_moves(sq, all) \cup get_bishop_moves(sq, all)) \ own
         [] recorded[2] = "King"   ->
                (get_king_moves(sq) \ own) \cup kingside(b, side) \cup queenside(b, side)
         [] OTHER -> EMPTY

\* let mut bb: the destination bitboard of the recorded piece on sq.
bb(b, side, sq, recorded) ==
    LET own == b.color_combined[side]
        all == combined(b)
    IN CASE recorded[2] = "Pawn"   -> get_pawn_moves(sq, recorded[1], all) \ own
         [] recorded[2] = "Rook"   -> get_rook_moves(sq, all) \ own
         [] recorded[2] = "Knight" -> get_knight_moves(sq) \ own
         [] recorded[2] = "Bishop" -> get_bishop_moves(sq, all) \ own
         [] recorded[2] = "Queen"  ->
                (get_rook_moves(sq, all) \cup get_bishop_moves(sq, all)) \ own
         [] recorded[2] = "King"   ->
                (get_king_moves(sq) \ own) \cup kingside(b, side) \cup queenside(b, side)
         [] OTHER -> EMPTY

\* The test of the en-passant tile: the board has an en-passant square and it
\* is the left or the right neighbour of sq.
EnPassantBeside(b, sq) ==
    /\ b.en_passant # NoSq
    /\ right(sq) = b.en_passant \/ left(sq) = b.en_passant

\* for x in bb { ... }: the tiles drawn as destinations; the en-passant tile
\* is drawn inside the loop, on en_passant().uup().
Highlighted(b, side, sq, recorded) ==
    LET dests == bb(b, side, sq, recorded)
    IN dests \cup (IF dests # EMPTY /\ EnPassantBeside(b, sq)
                   THEN {uup(b.en_passant)}
                   ELSE {})

\* GrabBlock with a slip: an empty pressed cell leaves the recorded piece.
GrabBlockKeepsOld(st, checked) ==
    IF cursor_grabbed /\ st.status # "Checkmate"
    THEN IF RowOverflows(AsUsize(pos_y)) /\ checked
         THEN Panic(st)
         ELSE IF piece_at(st.board, SquareOfCell(AsUsize(pos_y), AsUsize(pos_x))) = NoPiece
              THEN st
              ELSE [st EXCEPT !.piece =
                      piece_at(st.board, SquareOfCell(AsUsize(pos_y), AsUsize(pos_x)))]
    ELSE st

\* GrabBlock with a slip: the piece is recorded after a checkmate too.
GrabBlockIgnoresStatus(st, checked) ==
    IF cursor_grabbed
    THEN IF RowOverflows(AsUsize(pos_y)) /\ checked
         THEN Panic(st)
         ELSE [st EXCEPT !.piece =
                  piece_at(st.board, SquareOfCell(AsUsize(pos_y), AsUsize(pos_x)))]
    ELSE st

\* The block under cursor_grabbed(ctx) == true: records the piece on the
\* pressed cell (the rest of the block only draws).
GrabBlock(st, checked) ==
    IF cursor_grabbed /\ st.status # "Checkmate"
    THEN IF RowOverflows(AsUsize(pos_y)) /\ checked
         THEN Panic(st)
         ELSE LET sq == SquareOfCell(AsUsize(pos_y), AsUsize(pos_x))
                  recorded == piece_at(st.board, sq)
              IN [st EXCEPT !.piece = recorded,
                            !.highlighted =
                                IF recorded # NoPiece /\ recorded[1] = st.side_to_move
                                THEN Highlighted(st.board, st.side_to_move, sq, recorded)
                                ELSE {}]
    ELSE st

\* let to_sq: the square built from the pixel the pointer is at.
ToSquare(mx, my) == SquareOfCell(AsUsize(CellOf(my)), AsUsize(CellOf(mx)))

\* The promotion of the ChessMove built on pointer-up.
Promotion(to_sq, recorded) ==
    IF (get_rank(to_sq) = 0 \/ get_rank(to_sq) = 7) /\ recorded[2] = "Pawn"
    THEN "Queen"
    ELSE "None"

\* Applied with a slip: the side to move flips on checkmate too.
AppliedFlipsAlways(st, mv) ==
    LET g  == MoveMade(st.game, mv)
        b  == current_position(g)
        s  == BoardStatus(b)
        rb == Append(st.replay_boards, b)
    IN [st EXCEPT !.game = g,
                  !.board = b,
                  !.status = s,
                  !.replay_boards = rb,
                  !.saved_replay = IF s = "Checkmate" THEN Append(@, rb) ELSE @,
                  !.side_to_move = Other(@),
                  !.last = "applied"]

\* Applied with a slip: every applied move archives the accumulator.
AppliedArchivesEveryMove(st, mv) ==
    LET g  == MoveMade(st.game, mv)
        b  == current_position(g)
        s  == BoardStatus(b)
        rb == Append(st.replay_boards, b)
    IN [st EXCEPT !.game = g,
                  !.board = b,
                  !.status = s,
                  !.replay_boards = rb,
                  !.saved_replay = Append(@, rb),
                  !.side_to_move = IF s = "Checkmate" THEN @ ELSE Other(@),
                  !.last = "applied"]

\* Applied with a slip: the accumulator is archived before the new board is
\* pushed onto it.
AppliedArchivesFirst(st, mv) ==
    LET g  == MoveMade(st.game, mv)
        b  == current_position(g)
        s  == BoardStatus(b)
        rb == Append(st.replay_boards, b)
    IN [st EXCEPT !.game = g,
                  !.board = b,
                  !.status = s,
                  !.replay_boards = rb,
                  !.saved_replay = IF s = "Checkmate" THEN Append(@, st.replay_boards) ELSE @,
                  !.side_to_move = IF s = "Checkmate" THEN @ ELSE Other(@),
                  !.last = "applied"]

\* Applied with a slip: the board before the move is pushed onto the
\* accumulator.
AppliedPushesOld(st, mv) ==
    LET g  == MoveMade(st.game, mv)
        b  == current_position(g)
        s  == BoardStatus(b)
        rb == Append(st.replay_boards, st.board)
    IN [st EXCEPT !.game = g,
                  !.board = b,
                  !.status = s,
                  !.replay_boards = rb,
                  !.saved_replay = IF s = "Checkmate" THEN Append(@, rb) ELSE @,
                  !.side_to_move = IF s = "Checkmate" THEN @ ELSE Other(@),
                  !.last = "applied"]

\* Applied with a slip: the side to move is never flipped.
AppliedKeepsSide(st, mv) ==
    LET g  == MoveMade(st.game, mv)
        b  == current_position(g)
        s  == BoardStatus(b)
        rb == Append(st.replay_boards, b)
    IN [st EXCEPT !.game = g,
                  !.board = b,
                  !.status = s,
                  !.replay_boards = rb,
                  !.saved_replay = IF s = "Checkmate" THEN Append(@, rb) ELSE @,
                  !.last = "applied"]

\* if self.game.make_move(mv) == true { ... }
Applied(st, mv) ==
    LET g  == MoveMade(st.game, mv)
        b  == current_position(g)
        s  == BoardStatus(b)
        rb == Append(st.replay_boards, b)
    IN [st EXCEPT !.game = g,
                  !.board = b,
                  !.status = s,
                  !.replay_boards = rb,
                  !.saved_replay = IF s = "Checkmate" THEN Append(@, rb) ELSE @,
                  !.side_to_move = IF s = "Checkmate" THEN @ ELSE Other(@),
                  !.last = "applied"]

\* CommitBlock with a slip: the piece is cleared only after an applied move.
CommitBlockKeepsPiece(st, mx, my, checked) ==
    IF /\ ~cursor_grabbed
       /\ st.piece # NoPiece
       /\ st.piece[1] = st.side_to_move
       /\ st.status # "Checkmate"
    THEN IF (RowOverflows(AsUsize(pos_y)) \/ RowOverflows(AsUsize(CellOf(my)))) /\ checked
         THEN Panic(st)
         ELSE LET from_sq == SquareOfCell(AsUsize(pos_y), AsUsize(pos_x))
                  to_sq   == SquareOfCell(AsUsize(CellOf(my)), AsUsize(CellOf(mx)))
                  mv      == ChessMove(from_sq, to_sq, Promotion(to_sq, st.piece))
              IN IF make_move(st.game, mv)
                 THEN [Applied(st, mv) EXCEPT !.piece = NoPiece]
                 ELSE [st EXCEPT !.last = "rejected"]
    ELSE st

\* CommitBlock with a slip: the recorded piece is never cleared.
CommitBlockNeverClears(st, mx, my, checked) ==
    IF /\ ~cursor_grabbed
       /\ st.piece # NoPiece
       /\ st.piece[1] = st.side_to_move
       /\ st.status # "Checkmate"
    THEN IF (RowOverflows(AsUsize(pos_y)) \/ RowOverflows(AsUsize(CellOf(my)))) /\ checked
         THEN Panic(st)
         ELSE LET from_sq == SquareOfCell(AsUsize(pos_y), AsUsize(pos_x))
                  to_sq   == SquareOfCell(AsUsize(CellOf(my)), AsUsize(CellOf(mx)))
                  mv      == ChessMove(from_sq, to_sq, Promotion(to_sq, st.piece))
              IN IF make_move(st.game, mv)
                 THEN Applied(st, mv)
                 ELSE [st EXCEPT !.last = "rejected"]
    ELSE st

\* The block under cursor_grabbed(ctx) == false: builds the move from the
\* pressed cell to the cell under the pointer, submits it, clears the piece.
CommitBlock(st, mx, my, checked) ==
    IF /\ ~cursor_grabbed
       /\ st.piece # NoPiece
       /\ st.piece[1] = st.side_to_move
       /\ st.status # "Checkmate"
    THEN IF (RowOverflows(AsUsize(pos_y)) \/ RowOverflows(AsUsize(CellOf(my)))) /\ checked
         THEN Panic(st)
         ELSE LET from_sq == SquareOfCell(AsUsize(pos_y), AsUsize(pos_x))
                  to_sq   == ToSquare(mx, my)
                  mv      == ChessMove(from_sq, to_sq, Promotion(to_sq, st.piece))
                  after   == IF make_move(st.game, mv)
                             THEN Applied(st, mv)
                             ELSE [st EXCEPT !.last = "rejected"]
              IN [after EXCEPT !.piece = NoPiece]
    ELSE st

\* self.saved_replay[0][self.replay_turn]: the snapshot a replay shows with
\* the cursor at turn.
ReplayView(catalog, turn) == catalog[1][turn + 1]

\* The last block: while a replay is viewed the board is replaced by a
\* snapshot of the first archived game.
ReplayBlock(st) ==
    IF replay_turn < ReplayLimit /\ st.status = "Checkmate"
    THEN IF st.saved_replay = <<>>
         THEN Panic(st)
         ELSE IF replay_turn < Len(st.saved_replay[1])
              THEN [st EXCEPT !.board = ReplayView(st.saved_replay, replay_turn)]
              ELSE st
    ELSE st

\* What the frame renders: the side-to-move text and the grid with the
\* pieces are built from the fields as they are when draw is entered, before
\* the grab, commit and replay blocks run.
Rendered == [ board |-> board, side_to_move |-> side_to_move ]

DrawResult(mx, my, checked) ==
    LET s1 == GrabBlock(Fields, checked)
        s2 == IF s1.crashed THEN s1 ELSE CommitBlock(s1, mx, my, checked)
    IN IF s2.crashed THEN s2 ELSE ReplayBlock(s2)

\* The pointer hovers over the replay button (the menu branch lists the
\* archived games then).
ReplayHovered(mx, my) ==
    /\ mx >= MenuLeft /\ mx <= MenuLeft + MenuWidth
    /\ my >= StartBottom /\ my <= ReplayBottom

\* WaitLoop with a slip: the loop waits while the status is Checkmate.
WaitLoopOnCheckmate(st) == IF st = "Checkmate" THEN "spinning" ELSE "passed"

\* while self.status == BoardStatus::Ongoing { }: the body assigns nothing,
\* so a frame that enters the loop never leaves it.
WaitLoop(st) == IF st = "Ongoing" THEN "spinning" ELSE "passed"

\* The menu branch of draw, as far as the loop goes: the loop stands after the
\* list of archived games, under the status test and the hover test.
MenuBlock(st, mx, my) ==
    IF st = "Checkmate" /\ ReplayHovered(mx, my)
    THEN WaitLoop(st)
    ELSE "skipped"

\* The process takes steps: it has not panicked and no frame is in the loop.
Running == ~crashed /\ wait_loop # "spinning"

\* AppState::draw with the pointer at pixel (mx, my); checked tells whether
\* the build panics on arithmetic overflow (it wraps otherwise).  The menu
\* branch comes before the grid and the three blocks: a frame that spins in
\* its loop reaches none of them.
Draw(mx, my, checked) ==
    /\ Running
    /\ wait_loop' = MenuBlock(status, mx, my)
    /\ \E r \in {IF MenuBlock(status, mx, my) = "spinning"
                  THEN [Fields EXCEPT !.last = "spinning"]
                  ELSE DrawResult(mx, my, checked)} :
          /\ board' = r.board
          /\ status' = r.status
          /\ game' = r.game
          /\ side_to_move' = r.side_to_move
          /\ piece' = r.piece
          /\ saved_replay' = r.saved_replay
          /\ replay_boards' = r.replay_boards
          /\ highlighted' = IF r.last = "spinning" THEN highlighted ELSE r.highlighted
          /\ shown' = IF r.crashed \/ r.last = "spinning" THEN shown ELSE Rendered
          /\ crashed' = r.crashed
          /\ last' = r.last
    /\ UNCHANGED <<pos_x, pos_y, replay_turn, cursor_grabbed>>

(***************************************************************************)
(* The event handlers.                                                     *)
(***************************************************************************)
\* mouse_button_up_event, left button.
MouseButtonUp ==
    /\ Running
    /\ cursor_grabbed' = FALSE
    /\ last' = "up"
    /\ UNCHANGED <<board, status, game, side_to_move, pos_x, pos_y, piece,
                   saved_replay, replay_boards, replay_turn, highlighted, shown,
                   wait_loop, crashed>>

\* StartPressed with a slip: the start button is dead while a replay is viewed.
StartPressedInTerminal(x, y) ==
    status = "Checkmate" /\ replay_turn >= ReplayLimit /\ InStartButton(x, y)

\* The start button starts a new game.
StartPressed(x, y) == status = "Checkmate" /\ InStartButton(x, y)

\* ReplayPressed with a slip: the replay button works during a game.
ReplayPressedAlways(x, y) == ~StartPressed(x, y) /\ InReplayButton(x, y)

\* The replay button is tested after the start button has reset the status.
ReplayPressed(x, y) ==
    /\ status = "Checkmate"
    /\ ~StartPressed(x, y)
    /\ InReplayButton(x, y)

\* StartGame with a slip: the catalog is cleared with the accumulator.
StartGameClearsCatalog ==
    /\ board' = DefaultBoard
    /\ status' = "Ongoing"
    /\ game' = NewGame
    /\ side_to_move' = "White"
    /\ piece' = NoPiece
    /\ replay_boards' = <<DefaultBoard>>
    /\ replay_turn' = NoReplayTurn
    /\ saved_replay' = <<>>

\* StartGame with a slip: the board that is drawn is not reset.
StartGameKeepsBoard ==
    /\ UNCHANGED board
    /\ status' = "Ongoing"
    /\ game' = NewGame
    /\ side_to_move' = "White"
    /\ piece' = NoPiece
    /\ replay_boards' = <<DefaultBoard>>
    /\ replay_turn' = NoReplayTurn
    /\ UNCHANGED saved_replay

\* The body of the start-button branch.
StartGame ==
    /\ board' = DefaultBoard
    /\ status' = "Ongoing"
    /\ game' = NewGame
    /\ side_to_move' = "White"
    /\ piece' = NoPiece
    /\ replay_boards' = <<DefaultBoard>>
    /\ replay_turn' = NoReplayTurn
    /\ UNCHANGED saved_replay

\* mouse_button_down_event, left button at pixel (x, y).
MouseButtonDown(x, y) ==
    /\ Running
    /\ InBoard(x, y) => Len(saved_replay) < MaxGames
    /\ IF InBoard(x, y)
       THEN /\ pos_x' = CellOf(x)
            /\ pos_y' = CellOf(y)
            /\ cursor_grabbed' = TRUE
       ELSE UNCHANGED <<pos_x, pos_y, cursor_grabbed>>
    /\ IF StartPressed(x, y)
       THEN StartGame
       ELSE /\ UNCHANGED <<board, status, game, side_to_move, piece,
                           saved_replay, replay_boards>>
            /\ replay_turn' = IF ReplayPressed(x, y) THEN 0 ELSE replay_turn
    /\ last' = IF StartPressed(x, y)
               THEN IF board # current_position(game) THEN "start_viewing" ELSE "start"
               ELSE IF ReplayPressed(x, y) THEN "replay"
               ELSE IF InStartButton(x, y) \/ InReplayButton(x, y) THEN "ignored"
               ELSE "down"
    /\ UNCHANGED <<highlighted, shown, wait_loop, crashed>>

\* keycode == D: if self.replay_turn >= self.replay_boards.len() { += 1 }
AfterKeyD(turn, boards) == IF turn >= Len(boards) THEN turn + 1 ELSE turn

\* keycode == A: if self.replay_turn >= 1 { -= 1 }
AfterKeyA(turn) == IF turn >= 1 THEN turn - 1 ELSE turn

\* key_down_event for KeyCode::D.
KeyDownD ==
    /\ Running
    /\ replay_turn < NoReplayTurn + MaxFwd
    /\ replay_turn' = AfterKeyD(replay_turn, replay_boards)
    /\ last' = "keyD"
    /\ UNCHANGED <<board, status, game, side_to_move, pos_x, pos_y, piece,
                   saved_replay, replay_boards, cursor_grabbed, highlighted, shown, wait_loop,
                   crashed>>

\* key_down_event for KeyCode::A.
KeyDownA ==
    /\ Running
    /\ replay_turn = 0 \/ replay_turn > NoReplayTurn - MaxBack
    /\ replay_turn' = AfterKeyA(replay_turn)
    /\ last' = "keyA"
    /\ UNCHANGED <<board, status, game, side_to_move, pos_x, pos_y, piece,
                   saved_replay, replay_boards, cursor_grabbed, highlighted, shown, wait_loop,
                   crashed>>

\* The builds whose frames differ with the pointer at height my: with and
\* without overflow checks when draw can compute 7 - row for a row above 7.
Builds(my) ==
    IF RowOverflows(AsUsize(pos_y)) \/ RowOverflows(AsUsize(CellOf(my)))
    THEN BOOLEAN
    ELSE {FALSE}

Next ==
    \/ \E p \in MousePoints : MouseButtonDown(p[1], p[2])
    \/ MouseButtonUp
    \/ KeyDownD
    \/ KeyDownA
    \/ \E p \in MousePoints : \E checked \in Builds(p[2]) : Draw(p[1], p[2], checked)

Spec == Init /\ [][Next]_vars

(***************************************************************************)
(* Selections in positions with castling and en-passant: the session after *)
(* the start button and the moves of one of a few opening lines, the       *)
(* pointer then pressed on any square and released on the same square.     *)
(***************************************************************************)
\* The move from (file, rank) to (file, rank) without promotion.
Mv(ff, fr, tf, tr) == ChessMove(make_square(fr, ff), make_square(tr, tf), "None")

SelectLines ==
    { \* 1.e4 a6 2.e5 d5: White may take d5 en passant from e5.
      << Mv(4,1,4,3), Mv(0,6,0,5), Mv(4,3,4,4), Mv(3,6,3,4) >>,
      \* 1.e4 e6 2.e5 d5: the same with the pawn on e5 blocked by e6.
      << Mv(4,1,4,3), Mv(4,6,4,5), Mv(4,3,4,4), Mv(3,6,3,4) >>,
      \* 1.a3 d5 2.a4 d4 3.e4: Black may take e4 en passant from d4.
      << Mv(0,1,0,2), Mv(3,6,3,4), Mv(0,2,0,3), Mv(3,4,3,3), Mv(4,1,4,3) >>,
      \* 1.e4 a6 2.e5 h6 3.Nc3 h5 4.Ne4 h4 5.Nc5 d5: the capturable pawn d5
      \* stands between the white pawn e5 and the white knight c5.
      << Mv(4,1,4,3), Mv(0,6,0,5), Mv(4,3,4,4), Mv(7,6,7,5), Mv(1,0,2,2), Mv(7,5,7,4),
         Mv(2,2,4,3), Mv(7,4,7,3), Mv(4,3,2,4), Mv(3,6,3,4) >>,
      \* 1.Nc3 a6: b1 is empty, c1 and d1 are not.
      << Mv(1,0,2,2), Mv(0,6,0,5) >>,
      \* 1.e4 e5 2.Nf3 Nc6 3.Bc4 Bc5: White may castle kingside.
      << Mv(4,1,4,3), Mv(4,6,4,4), Mv(6,0,5,2), Mv(1,7,2,5), Mv(5,0,2,3), Mv(5,7,2,4) >>,
      \* ... 4.Ke2 Nf6 5.Ke1 Ng8: the same squares, White's rights lost.
      << Mv(4,1,4,3), Mv(4,6,4,4), Mv(6,0,5,2), Mv(1,7,2,5), Mv(5,0,2,3), Mv(5,7,2,4),
         Mv(4,0,4,1), Mv(6,7,5,5), Mv(4,1,4,0), Mv(5,5,6,7) >> }

\* The game after the moves of a line, each submitted to make_move.
RECURSIVE PlayLine(_, _)
PlayLine(g, line) ==
    IF line = <<>> THEN g
    ELSE PlayLine(IF make_move(g, Head(line)) THEN MoveMade(g, Head(line)) ELSE g,
                  Tail(line))

\* The session after the start button and the moves of a line, the last of
\* them applied by the frame just drawn.
InitAfter(line) ==
    LET g == PlayLine(NewGame, line)
        from == line[Len(line)].from
    IN /\ game = g
       /\ board = current_position(g)
       /\ status = BoardStatus(current_position(g))
       /\ side_to_move = current_position(g).side_to_move
       /\ pos_x = get_file(from)
       /\ pos_y = 7 - get_rank(from)
       /\ piece = NoPiece
       /\ saved_replay = <<>>
       /\ replay_boards =
             [i \in 1 .. (Len(line) + 1) |->
                 current_position(PlayLine(NewGame, SubSeq(line, 1, i - 1)))]
       /\ replay_turn = NoReplayTurn
       /\ cursor_grabbed = FALSE
       /\ highlighted = {}
       /\ shown = [ board |-> replay_boards[Len(line)],
                    side_to_move |-> Other(side_to_move) ]
       /\ wait_loop = "skipped"
       /\ crashed = FALSE
       /\ last = "applied"

InitSelect == \E line \in SelectLines : InitAfter(line)

\* The centre of the cell of the last pointer-down.
PressedPixel ==
    << BoardOrigin + GRID_CELL_SIZE * pos_x + GRID_CELL_SIZE \div 2,
       BoardOrigin + GRID_CELL_SIZE * pos_y + GRID_CELL_SIZE \div 2 >>

NextSelect ==
    \/ \E s \in Squares :
          MouseButtonDown(SqPixel(get_file(s), get_rank(s))[1],
                          SqPixel(get_file(s), get_rank(s))[2])
    \/ MouseButtonUp
    \/ \E checked \in Builds(PressedPixel[2]) :
          Draw(PressedPixel[1], PressedPixel[2], checked)

SpecSelect == InitSelect /\ [][NextSelect]_vars

(***************************************************************************)
(* A game that ends without checkmate: the session one move before the     *)
(* stalemate of the ten-move game 1.e3 a5 2.Qh5 Ra6 3.Qxa5 h5 4.h4 Rah6    *)
(* 5.Qxc7 f6 6.Qxd7+ Kf7 7.Qxb7 Qd3 8.Qxb8 Qh7 9.Qxc8 Kg6 10.Qe6, the      *)
(* pointer pressed on any square or button and released where it was       *)
(* pressed or on e6.                                                       *)
(***************************************************************************)
StaleLine ==
    << Mv(4,1,4,2), Mv(0,6,0,4), Mv(3,0,7,4), Mv(0,7,0,5), Mv(7,4,0,4), Mv(7,6,7,4),
       Mv(7,1,7,3), Mv(0,5,7,5), Mv(0,4,2,6), Mv(5,6,5,5), Mv(2,6,3,6), Mv(4,7,5,6),
       Mv(3,6,1,6), Mv(3,7,3,2), Mv(1,6,1,7), Mv(3,2,7,6), Mv(1,7,2,7), Mv(5,6,6,5) >>

InitStale == InitAfter(StaleLine)

\* Where the pointer is when a frame is drawn: on the cell last pressed or
\* on e6.
StalePoints == {PressedPixel, SqPixel(4, 5)}

NextStale ==
    \/ \E s \in Squares :
          MouseButtonDown(SqPixel(get_file(s), get_rank(s))[1],
                          SqPixel(get_file(s), get_rank(s))[2])
    \/ \E p \in {StartPoint, ReplayPoint} : MouseButtonDown(p[1], p[2])
    \/ MouseButtonUp
    \/ \E p \in StalePoints : \E checked \in Builds(p[2]) : Draw(p[1], p[2], checked)

SpecStale == InitStale /\ [][NextStale]_vars


(***************************************************************************)
(* The phases of the session, read off the state.                          *)
(***************************************************************************)
\* The guard of the commit block: a recorded piece of the side to move.
ActiveSelection == piece # NoPiece /\ piece[1] = side_to_move

\* The guard of the replay block: a replay is viewed.
ReplayActive == replay_turn < ReplayLimit /\ status = "Checkmate"

Terminal == status = "Checkmate" /\ ~ReplayActive
Idle == status # "Checkmate" /\ ~ActiveSelection

\* The last pointer-down was on the board; the square it pressed.
PressedOnBoard == pos_x \in 0 .. 7 /\ pos_y \in 0 .. 7
PressedSquare == SquareOfCell(pos_y, pos_x)

\* The last frame was drawn with the pointer down on a piece of the side to
\* move: the piece is recorded and its destinations are on the screen.
Selecting ==
    /\ last = "frame" /\ cursor_grabbed
    /\ ActiveSelection
    /\ PressedOnBoard

\* The guard of the commit block holds: the next frame builds a move from
\* the pressed cell and submits it.
CommitReady ==
    /\ ~crashed /\ ~cursor_grabbed
    /\ ActiveSelection
    /\ status # "Checkmate"

\* What last holds after a frame that was drawn to its end.
FrameKinds == {"frame", "applied", "rejected"}

\* What last holds after the start button started a new game: "start_viewing"
\* when the board drawn until then was a replay snapshot, not the game's.
StartKinds == {"start", "start_viewing"}

\* This step is a commit the engine applied: the game gained a move.
MoveApplied == Len(game'.moves) = Len(game.moves) + 1

(***************************************************************************)
(* Claims.                                                                 *)
(***************************************************************************)

\* C1: a step in which the engine applies a move flips side_to_move when the
\* resulting status is not Checkmate and leaves it when it is Checkmate; a
\* step that neither applies a move nor starts a new game never changes
\* side_to_move.
C1_SideToMove ==
    [][ /\ MoveApplied =>
             side_to_move' = IF status' = "Checkmate" THEN side_to_move
                             ELSE Other(side_to_move)
        /\ (~MoveApplied /\ last' \notin StartKinds) => side_to_move' = side_to_move
      ]_vars

\* A move has just been applied that mates: Black mated, Black stays to move.
C1_Witness ==
    /\ last = "applied" /\ status = "Checkmate"
    /\ side_to_move = "Black" /\ Len(game.moves) = 4

\* C2: a commit the engine rejects leaves board, game, side_to_move, status,
\* replay_boards and saved_replay as they were, clears the recorded piece and
\* leaves the session Idle.
C2_RejectedCommit ==
    [][ last' = "rejected" =>
          /\ board' = board /\ game' = game
          /\ side_to_move' = side_to_move /\ status' = status
          /\ replay_boards' = replay_boards /\ saved_replay' = saved_replay
          /\ piece' = NoPiece
          /\ Idle'
      ]_vars

\* A commit was rejected in the middle of a game.
C2_Witness ==
    /\ last = "rejected" /\ Len(game.moves) >= 1 /\ piece = NoPiece
    /\ status = "Ongoing"

C4_CursorInRange ==
    ReplayActive =>
        /\ saved_replay # <<>>
        /\ replay_turn \in 0 .. (Len(saved_replay[1]) - 1)

\* C5: while a replay is viewed with the cursor on a snapshot, key D moves the
\* cursor one up unless it is on the last snapshot, and key A moves it one
\* down unless it is on the first.
C5_StepClamped ==
    [][ ( /\ ReplayActive
          /\ saved_replay # <<>>
          /\ replay_turn < Len(saved_replay[1]) )
        => /\ last' = "keyD" =>
                replay_turn' = IF replay_turn < Len(saved_replay[1]) - 1
                               THEN replay_turn + 1 ELSE replay_turn
           /\ last' = "keyA" =>
                replay_turn' = IF replay_turn > 0 THEN replay_turn - 1 ELSE 0
      ]_vars

\* C6: right after the replay button is pressed with a game of n >= 3
\* snapshots archived, the keys A, A, D, D, D leave the cursor at n - 1 and
\* keep it in 0 .. n - 1 after each key.
C6_ScenarioD ==
    ( /\ last = "replay"
      /\ saved_replay # <<>>
      /\ Len(saved_replay[Len(saved_replay)]) >= 3 )
    => LET n  == Len(saved_replay[Len(saved_replay)])
           t1 == AfterKeyA(replay_turn)
           t2 == AfterKeyA(t1)
           t3 == AfterKeyD(t2, replay_boards)
           t4 == AfterKeyD(t3, replay_boards)
           t5 == AfterKeyD(t4, replay_boards)
       IN /\ {replay_turn, t1, t2, t3, t4, t5} \subseteq 0 .. (n - 1)
          /\ t5 = n - 1

\* C7: the catalog changes exactly in the step whose applied move produces
\* Checkmate, by gaining the accumulator as one record of ply-count + 1
\* snapshots; status leaves Checkmate only through the start button, so a
\* game adds at most one record.
C7_OneRecordPerMate ==
    [][ /\ (MoveApplied /\ status' = "Checkmate") =>
              /\ status # "Checkmate"
              /\ saved_replay' = Append(saved_replay, replay_boards')
              /\ Len(replay_boards') = Len(game'.moves) + 1
        /\ ~(MoveApplied /\ status' = "Checkmate") => saved_replay' = saved_replay
        /\ (status = "Checkmate" /\ status' # "Checkmate") => last' \in StartKinds
      ]_vars

\* The second game of the session has just ended in mate after four plies and
\* is the second record, of five snapshots.
C7_Witness ==
    /\ last = "applied" /\ status = "Checkmate"
    /\ Len(saved_replay) = 2
    /\ Len(game.moves) = 4
    /\ Len(saved_replay[2]) = 5

\* C8: every record of the catalog starts with the initial position; a record
\* enters the catalog ending with the game's position, which is checkmate;
\* no step changes a record that is in the catalog.
C8_RecordsSealed ==
    [][ /\ \A i \in 1 .. Len(saved_replay) :
              i <= Len(saved_replay') /\ saved_replay'[i] = saved_replay[i]
        /\ \A i \in 1 .. Len(saved_replay') :
              /\ saved_replay'[i][1] = DefaultBoard
              /\ i > Len(saved_replay) =>
                    LET final == saved_replay'[i][Len(saved_replay'[i])]
                    IN /\ final = current_position(game')
                       /\ status' = "Checkmate"
                       /\ BoardStatus(final) = "Checkmate"
      ]_vars

\* A record is in the catalog while a later game has been started and a move
\* of it applied.
C8_Witness ==
    /\ Len(saved_replay) = 1
    /\ status = "Ongoing"
    /\ Len(game.moves) >= 1
    /\ saved_replay[1][Len(saved_replay[1])] # current_position(game)

\* C9: no step shortens the catalog or changes an entry at its index, and the
\* start button leaves the catalog exactly as it was.
C9_CatalogAppendOnly ==
    [][ /\ Len(saved_replay') >= Len(saved_replay)
        /\ SubSeq(saved_replay', 1, Len(saved_replay)) = saved_replay
        /\ last' \in StartKinds => saved_replay' = saved_replay
      ]_vars

\* A new game has been started with a record in the catalog.
C9_Witness ==
    /\ last \in StartKinds
    /\ Len(saved_replay) >= 1
    /\ replay_boards = <<DefaultBoard>>

\* C10: the start button, pressed when the status is Checkmate, leaves the
\* initial position on the board and in the game, White to move, no recorded
\* piece, status Ongoing, the accumulator <<initial position>>, and the
\* replay cursor off: no replay is viewed and the session is Idle.
C10_NewGameResets ==
    [][ (status = "Checkmate" /\ last' \in StartKinds) =>
          /\ board' = DefaultBoard
          /\ game' = NewGame
          /\ side_to_move' = "White"
          /\ piece' = NoPiece
          /\ status' = "Ongoing"
          /\ replay_boards' = <<DefaultBoard>>
          /\ replay_turn' = NoReplayTurn
          /\ ~ReplayActive'
          /\ Idle'
      ]_vars

\* A new game has been started while the board showed a replay snapshot
\* instead of the position of the game that had ended.
C10_Witness ==
    /\ last = "start_viewing"
    /\ board = DefaultBoard
    /\ Len(saved_replay) >= 1


\* C11: the state after construction is Idle with the standard starting
\* position: status Ongoing, White to move, no recorded piece, so that moves
\* are accepted without any prior command.
C11_InitialIdle ==
    last = "new" =>
        /\ status = "Ongoing"
        /\ Idle
        /\ board = DefaultBoard
        /\ side_to_move = "White"
        /\ piece = NoPiece

\* C12: while the status is Checkmate, a step other than the start button
\* applies no move, creates no selection and leaves the recorded piece,
\* side_to_move, the accumulator and the catalog as they were.
C12_TerminalFrozen ==
    [][ (status = "Checkmate" /\ last' \notin StartKinds) =>
          /\ ~MoveApplied
          /\ game' = game
          /\ ~ActiveSelection /\ ~ActiveSelection'
          /\ piece' = piece
          /\ side_to_move' = side_to_move
          /\ replay_boards' = replay_boards
          /\ saved_replay' = saved_replay
      ]_vars

\* After a game ended in mate, the pointer went down on a piece of the side
\* to move and a frame was drawn with the pointer still down.
C12_Witness ==
    /\ status = "Checkmate" /\ last = "frame" /\ cursor_grabbed
    /\ Len(saved_replay) >= 1
    /\ PressedOnBoard
    /\ color_on(current_position(game), PressedSquare) = side_to_move

\* C13: while a replay is viewed with k >= 2 records in the catalog, the
\* snapshot shown at every cursor position of the last record is that
\* record's snapshot at the cursor.
C13_ViewsLastRecord ==
    (ReplayActive /\ Len(saved_replay) >= 2) =>
        LET finished == saved_replay[Len(saved_replay)]
        IN \A i \in 0 .. (Len(finished) - 1) :
              /\ i < Len(saved_replay[1])
              /\ ReplayView(saved_replay, i) = finished[i + 1]

\* C14: a replay is never viewed through a frame that panics (the catalog
\* holds the record that the frame indexes).
C14_NoMissingRecord == ReplayActive => ~crashed

\* C15: the board field equals the current position of the game in every
\* state (entering a replay and stepping it do not change it).
C15_LiveBoard == board = current_position(game)

\* The accumulator is seeded with the initial position and holds one
\* snapshot per applied move of the game in progress.
AccumulatorSeeded ==
    /\ replay_boards # <<>>
    /\ replay_boards[1] = DefaultBoard
    /\ Len(replay_boards) = Len(game.moves) + 1

\* C16: the accumulator is never empty, starts with the initial position and
\* has one element more than the game has moves; an applied move appends
\* exactly the game's new position, which is the new board; a step that
\* neither applies a move nor starts a new game leaves the accumulator.
C16_Accumulator ==
    [][ /\ AccumulatorSeeded /\ AccumulatorSeeded'
        /\ MoveApplied =>
              /\ replay_boards' = Append(replay_boards, current_position(game'))
              /\ board' = current_position(game')
        /\ (~MoveApplied /\ last' \notin StartKinds) => replay_boards' = replay_boards
      ]_vars

\* Two moves of a game have been applied, the second just now.
C16_Witness ==
    /\ last = "applied" /\ status = "Ongoing"
    /\ Len(game.moves) = 2 /\ Len(replay_boards) = 3
    /\ replay_boards[3] = board

\* C17: a frame drawn with the pointer up ends without an active selection,
\* whether it applied a move or rejected one; a move is applied only by such
\* a frame from an active selection, and a selection becomes active only in
\* a frame drawn with the pointer down on a piece of the side to move.
C17_ReleaseClears ==
    [][ /\ (~cursor_grabbed /\ last' \in {"frame", "applied", "rejected"})
              => ~ActiveSelection'
        /\ MoveApplied => (ActiveSelection /\ ~cursor_grabbed /\ last' = "applied")
        /\ (~ActiveSelection /\ ActiveSelection') =>
              /\ cursor_grabbed /\ last' = "frame"
              /\ PressedOnBoard
              /\ color_on(board, PressedSquare) = side_to_move
      ]_vars

\* A move has been applied, the pointer has gone up once more, and the frame
\* drawn after it found nothing to commit.
C17_Witness ==
    /\ last = "frame" /\ ~cursor_grabbed /\ piece = NoPiece
    /\ status = "Ongoing" /\ Len(game.moves) >= 1
    /\ PressedOnBoard
    /\ color_on(board, PressedSquare) = "None"


\* C18: the destination set computed for a selected piece of the side to
\* move, castling additions included, holds no square occupied by that side
\* (and every square of it is drawn as a destination).
C18_NoOwnDestination ==
    Selecting =>
        /\ bb(board, side_to_move, PressedSquare, piece)
              \cap board.color_combined[side_to_move] = {}
        /\ bb(board, side_to_move, PressedSquare, piece) \subseteq highlighted

\* The king is selected with f1 and g1 empty: g1 is among the destinations,
\* next to the raw king moves e2 and f1.
C18_Witness ==
    /\ Selecting
    /\ piece = <<"White", "King">>
    /\ highlighted = {make_square(1, 4), make_square(0, 5), make_square(0, 6)}

\* C19: for a selected King, a destination that is not a raw one-step move
\* is the g-file or the c-file square of the home rank, the g-file square
\* only with the kingside right held and f and g empty, the c-file square
\* only with the queenside right held and b, c and d empty.
C19_CastlingTargets ==
    (Selecting /\ piece[2] = "King") =>
        LET side  == side_to_move
            home  == IF side = "White" THEN 0 ELSE 7
            raw   == get_king_moves(PressedSquare) \ board.color_combined[side]
            extra == bb(board, side, PressedSquare, piece) \ raw
            held  == board.castle_rights[side]
        IN /\ extra \subseteq {make_square(home, 6), make_square(home, 2)}
           /\ make_square(home, 6) \in extra =>
                 /\ held \in {"Both", "KingSide"}
                 /\ \A f \in {5, 6} : IsEmpty(board, make_square(home, f))
           /\ make_square(home, 2) \in extra =>
                 /\ held \in {"Both", "QueenSide"}
                 /\ \A f \in {1, 2, 3} : IsEmpty(board, make_square(home, f))

\* C20: when the board has an en-passant square and a pawn of the side to
\* move is selected directly left or right of it, the tiles drawn as
\* destinations include the square the capturing pawn lands on.
C20_EnPassantShown ==
    ( /\ Selecting
      /\ piece[2] = "Pawn"
      /\ board.en_passant # NoSq
      /\ get_rank(board.en_passant) = get_rank(PressedSquare)
      /\ Abs(get_file(board.en_passant) - get_file(PressedSquare)) = 1 )
    => make_square(get_rank(board.en_passant) + PawnDir(side_to_move),
                   get_file(board.en_passant)) \in highlighted


\* C21: the move built on pointer-up carries promotion Queen exactly when the
\* piece on the from-square is a Pawn and the destination rank is the
\* farthest rank of the side to move, and no promotion otherwise, wherever
\* on the board the pointer is released.
C21_PromotionRule ==
    CommitReady =>
        \A p \in { q \in MousePoints : InBoard(q[1], q[2]) } :
           Promotion(ToSquare(p[1], p[2]), piece) =
               IF /\ piece_on(board, PressedSquare) = "Pawn"
                  /\ get_rank(ToSquare(p[1], p[2])) = LastRank(side_to_move)
               THEN "Queen"
               ELSE "None"

\* C22: what a frame rendered is the board and the side to move the frame
\* leaves: the commit, the side flip and the replay override are not made
\* after the frame has drawn the board.
C22_RenderAfterMutation ==
    last \in FrameKinds => shown = [board |-> board, side_to_move |-> side_to_move]

\* C23: no frame of a game panics: the squares of the move are built from
\* rows and columns in 0 .. 7 and 7 - row never underflows, wherever the
\* pointer is pressed and released.
C23_SquaresInBoard == status # "Checkmate" => ~crashed

\* C24: in every state of a running process in which the game has ended in
\* checkmate, whether the final position or a replay is on the screen, a
\* press on the start button is enabled and leaves the session Idle with a
\* new game.
C24_NewGameEnabled ==
    (~crashed /\ status = "Checkmate" /\ game.moves # <<>>) =>
        ENABLED ( /\ MouseButtonDown(StartPoint[1], StartPoint[2])
                  /\ status' = "Ongoing"
                  /\ game' = NewGame
                  /\ piece' = NoPiece
                  /\ replay_turn' = NoReplayTurn )

\* A new game has been started from the replay of the second game of the
\* session.
C24_Witness ==
    /\ last = "start_viewing"
    /\ Idle
    /\ Len(saved_replay) = 2

\* C25: in every state of a running process a new game can be started or the
\* engine accepts a move: no state is left without a transition that changes
\* the game.
C25_NoDeadState ==
    ~crashed => (status = "Checkmate" \/ HasLegalMove(current_position(game)))

\* C26: whenever a frame attempts a commit, the recorded piece is the piece
\* on the pressed square of the board.
C26_RecordedIsMoved ==
    [][ last' \in {"applied", "rejected"} => piece = piece_at(board, PressedSquare) ]_vars

\* C27: keys A and D pressed while no replay is viewed change neither the
\* replay cursor nor the board.
C27_KeysOutsideReplay ==
    [][ (~ReplayActive /\ last' \in {"keyA", "keyD"}) =>
            (replay_turn' = replay_turn /\ board' = board) ]_vars

\* C28: while the status is not Checkmate a press in the region of the start
\* button or of the replay button is ignored: board, game, side_to_move,
\* status, recorded piece, accumulator, catalog and cursor stay as they were.
C28_ButtonsIgnored ==
    [][ (status # "Checkmate" /\ last' \in (StartKinds \cup {"replay", "ignored"})) =>
          /\ last' = "ignored"
          /\ board' = board /\ game' = game
          /\ side_to_move' = side_to_move /\ status' = status
          /\ piece' = piece
          /\ replay_boards' = replay_boards /\ saved_replay' = saved_replay
          /\ replay_turn' = replay_turn
      ]_vars

\* A button region was pressed in the middle of a game.
C28_Witness ==
    /\ last = "ignored" /\ status = "Ongoing"
    /\ Len(game.moves) >= 1
    /\ replay_turn = NoReplayTurn

\* C29: while the status is not Checkmate, side_to_move is the side to move
\* of the game's current position, the board is that position, and a piece
\* selected on it is of the side the engine lets move.
C29_SideAgrees ==
    status # "Checkmate" =>
        /\ side_to_move = current_position(game).side_to_move
        /\ board = current_position(game)
        /\ Selecting => /\ piece[1] = current_position(game).side_to_move
                        /\ piece = piece_at(current_position(game), PressedSquare)

\* Black is to move and has a piece selected.
C29_Witness ==
    /\ status = "Ongoing" /\ Selecting
    /\ side_to_move = "Black"
    /\ current_position(game).side_to_move = "Black"

\* C30: when the selected piece is not a Pawn, no tile is drawn beyond the
\* piece's destinations (no en-passant tile).
C30_OnlyPawns ==
    (Selecting /\ piece[2] # "Pawn") =>
        highlighted \subseteq bb(board, side_to_move, PressedSquare, piece)


\* C31: every frame ends: no frame enters the loop of the menu branch, which
\* stands under the test status == Checkmate and is reached with that status.
C31_FrameTerminates == wait_loop # "spinning" /\ last # "spinning"

\* A frame drawn after a checkmate with the pointer over the replay button
\* reached the loop and went past it.
C31_Witness ==
    /\ wait_loop = "passed" /\ last = "frame"
    /\ status = "Checkmate" /\ Len(saved_replay) >= 1
    /\ ~crashed

====
